---- MODULE Spec2Model ----
(***************************************************************************)
(* Back-testing core of the finance repository (src/strategy.py) and the   *)
(* part of main() that drives it (src/main.py).                            *)
(*                                                                         *)
(* A pandas Series is a sequence of numbers; a DataFrame is a sequence of  *)
(* row records whose Date field is the index label.  Dates are trading-day *)
(* ordinals 1, 2, ... (the index returned by yf.download is strictly       *)
(* increasing).  Floating-point numbers are modelled as exact rationals    *)
(* n/d in lowest terms, extended with the two IEEE values the code can     *)
(* produce: NaN (0/0) and infinity (n/0).  Rounding is not modelled.       *)
(***************************************************************************)
EXTENDS Integers, Sequences, FiniteSets, TLC

\* ---------------------------------------------------------------- bounds
MaxLen    == 4      \* longest downloaded price series
MaxPrice  == 2      \* close prices are 1..MaxPrice
MaxPeriod == 3      \* window / span parameters are 1..MaxPeriod
MaxEvents == 4      \* longest table of position events handed to the trade analyzers
MaxCurve  == 4      \* longest equity curve handed to analyze_drawdown
MaxEquity == 3      \* equity values of such a curve are 1..MaxEquity
MaxBars   == 5      \* longest price series of a whole run of main()

\* ------------------------------------------------------ program constants
DefaultOversold   == 30
DefaultOverbought == 70
DefaultCapital    == 10000
None              == 0      \* Python None where a date (>= 1) is expected

\* ------------------------------------------------------------ arithmetic
Abs(x)  == IF x < 0 THEN -x ELSE x
Sign(x) == IF x > 0 THEN 1 ELSE IF x < 0 THEN -1 ELSE 0

RECURSIVE GCD(_, _)
GCD(a, b) == IF b = 0 THEN a ELSE GCD(b, a % b)

\* the float n/d: lowest terms, d >= 0; d = 0 is infinity (n # 0) or NaN (n = 0)
Norm(n, d) ==
    IF d = 0 THEN [n |-> Sign(n), d |-> 0]
    ELSE LET g == GCD(Abs(n), Abs(d))
         IN  [n |-> (Sign(d) * n) \div g, d |-> Abs(d) \div g]

R(k)     == [n |-> k, d |-> 1]
NaN      == [n |-> 0, d |-> 0]
IsNaN(a) == a.n = 0 /\ a.d = 0
NotNa(a) == ~IsNaN(a)

Neg(a) == [n |-> -a.n, d |-> a.d]

Add(a, b) ==
    IF IsNaN(a) \/ IsNaN(b) THEN NaN
    ELSE IF a.d = 0 /\ b.d = 0 THEN (IF a.n = b.n THEN a ELSE NaN)
    ELSE Norm(a.n * b.d + b.n * a.d, a.d * b.d)

Sub(a, b) == Add(a, Neg(b))

\* 0 * infinity and NaN * x come out as 0/0 = NaN
Mul(a, b) == Norm(a.n * b.n, a.d * b.d)

\* x / 0 is infinity for x # 0 and NaN for x = 0.  (The zero losses of
\* calculate_rsi are -0.0, so the float quotient is -inf; its sign is lost
\* again in 100 / (1 + rs), and the model keeps one sign.)
Div(a, b) ==
    LET recip == IF b.n > 0 THEN [n |-> b.d, d |-> b.n]
                 ELSE IF b.n < 0 THEN [n |-> -b.d, d |-> -b.n]
                 ELSE IF b.d = 0 THEN NaN
                 ELSE [n |-> 1, d |-> 0]
    IN  Mul(a, recip)

\* comparisons with NaN are False
Less(a, b)      == NotNa(a) /\ NotNa(b) /\ a.n * b.d < b.n * a.d
Greater(a, b)   == Less(b, a)
GreaterEq(a, b) == NotNa(a) /\ NotNa(b) /\ a.n * b.d >= b.n * a.d

\* ---------------------------------------------------------- pandas Series
\* the sequence << f[1], ..., f[n] >> of a function f on 1..n
RECURSIVE Tabulate(_, _)
Tabulate(f, n) == IF n = 0 THEN << >> ELSE Append(Tabulate(f, n - 1), f[n])

Column(df, c) == Tabulate([i \in 1..Len(df) |-> df[i][c]], Len(df))

\* Series.diff()
DiffIdentity(s) == s
Diff(s) == Tabulate([i \in 1..Len(s) |-> IF i = 1 THEN NaN ELSE Sub(s[i], s[i - 1])], Len(s))

\* Series.shift(1)
ShiftLookAhead(s) == Tabulate([i \in 1..Len(s) |-> IF i = Len(s) THEN NaN ELSE s[i + 1]], Len(s))
Shift(s) == Tabulate([i \in 1..Len(s) |-> IF i = 1 THEN NaN ELSE s[i - 1]], Len(s))

\* Series.pct_change()
PctChange(s) ==
    Tabulate([i \in 1..Len(s) |-> IF i = 1 THEN NaN ELSE Sub(Div(s[i], s[i - 1]), R(1))], Len(s))

RECURSIVE SumRange(_, _, _)
SumRange(s, lo, hi) == IF lo > hi THEN R(0) ELSE Add(s[lo], SumRange(s, lo + 1, hi))

\* Series.rolling(window).mean(): undefined until the window is full
RollingMean(s, window) ==
    Tabulate([i \in 1..Len(s) |-> IF i < window THEN NaN
                        ELSE Div(SumRange(s, i - window + 1, i), R(window))], Len(s))

\* Series.ewm(span, adjust=False).mean(): seeded by the first observation,
\* avg_t = (1 - alpha) * avg_(t-1) + alpha * x_t with alpha = 2 / (span + 1)
RECURSIVE EwmUpTo(_, _, _)
EwmUpTo(s, alpha, n) ==
    IF n = 0 THEN << >>
    ELSE IF n = 1 THEN << s[1] >>
    ELSE LET avg == EwmUpTo(s, alpha, n - 1)
         IN  Append(avg, Add(Mul(Sub(R(1), alpha), avg[n - 1]), Mul(alpha, s[n])))

Ewm(s, span) == EwmUpTo(s, Norm(2, span + 1), Len(s))

\* s with NaN where s is NaN, and acc elsewhere
Mask(s, acc) == Tabulate([i \in 1..Len(s) |-> IF IsNaN(s[i]) THEN NaN ELSE acc[i]], Len(s))

\* the running product of the entries that are not NaN
RECURSIVE ProductUpTo(_, _)
ProductUpTo(s, n) ==
    IF n = 0 THEN << >>
    ELSE IF n = 1 THEN << s[1] >>
    ELSE LET acc == ProductUpTo(s, n - 1)
         IN  Append(acc, IF IsNaN(s[n]) THEN acc[n - 1]
                         ELSE IF IsNaN(acc[n - 1]) THEN s[n]
                         ELSE Mul(acc[n - 1], s[n]))

\* Series.cumprod(): a NaN entry stays NaN and is left out of the product
RECURSIVE NaNProductUpTo(_, _)
NaNProductUpTo(s, n) ==
    IF n = 0 THEN << >>
    ELSE IF n = 1 THEN << s[1] >>
    ELSE LET acc == NaNProductUpTo(s, n - 1)
         IN  Append(acc, Mul(acc[n - 1], s[n]))
CumProdPropagate(s) == NaNProductUpTo(s, Len(s))
CumProd(s) == Mask(s, ProductUpTo(s, Len(s)))

\* the running maximum of the entries that are not NaN
RECURSIVE MaxUpTo(_, _)
MaxUpTo(s, n) ==
    IF n = 0 THEN << >>
    ELSE IF n = 1 THEN << s[1] >>
    ELSE LET acc == MaxUpTo(s, n - 1)
         IN  Append(acc, IF IsNaN(s[n]) THEN acc[n - 1]
                         ELSE IF IsNaN(acc[n - 1]) \/ Greater(s[n], acc[n - 1]) THEN s[n]
                         ELSE acc[n - 1])

\* Series.cummax(): a NaN entry stays NaN and is skipped
CumMax(s) == Mask(s, MaxUpTo(s, Len(s)))

\* Series.ffill(): a NaN entry takes the last value before it
RECURSIVE FfillUpTo(_, _)
FfillUpTo(s, n) ==
    IF n = 0 THEN << >>
    ELSE IF n = 1 THEN << s[1] >>
    ELSE LET filled == FfillUpTo(s, n - 1)
         IN  Append(filled, IF IsNaN(s[n]) THEN filled[n - 1] ELSE s[n])

Ffill(s) == FfillUpTo(s, Len(s))

\* Series.replace(0, nan) and Series.fillna(0)
ReplaceNothing(s) == s
Replace0WithNaN(s) == Tabulate([i \in 1..Len(s) |-> IF s[i] = R(0) THEN NaN ELSE s[i]], Len(s))
Fillna0(s)         == Tabulate([i \in 1..Len(s) |-> IF IsNaN(s[i]) THEN R(0) ELSE s[i]], Len(s))

\* DataFrame.dropna(): the rows with no NaN in any column
RowHasNa(row) == \E c \in DOMAIN row : c # "Date" /\ IsNaN(row[c])
Dropna(df)    == SelectSeq(df, LAMBDA row : ~RowHasNa(row))

\* ------------------------------------------------- equity simulator
\* strategy.py 173-179 and 268-274: the four columns both strategies add
EquityCurves(df, initial_capital) ==
    LET returns  == PctChange(Column(df, "Close"))
        lagged   == Shift(Column(df, "Signal"))
        strategy == Tabulate([i \in 1..Len(df) |-> Mul(lagged[i], returns[i])], Len(df))
        buy_hold == CumProd(Tabulate([i \in 1..Len(df) |-> Add(R(1), returns[i])], Len(df)))
        equity   == CumProd(Tabulate([i \in 1..Len(df) |-> Add(R(1), strategy[i])], Len(df)))
    IN  Tabulate([i \in 1..Len(df) |->
            df[i] @@ [Returns          |-> returns[i],
                      Strategy_Returns |-> strategy[i],
                      Buy_Hold_Equity  |-> Mul(R(initial_capital), buy_hold[i]),
                      Strategy_Equity  |-> Mul(R(initial_capital), equity[i])]], Len(df))

\* ------------------------------------------ moving-average crossover
\* df['Signal'] = 0, then the chained assignment df['Signal'][fast_period:] = ...
\* The chained assignment writes through to df in pandas without
\* copy-on-write and is lost with copy-on-write: `writes` is that outcome.
CrossoverSignal(ma_fast, ma_slow, fast_period, writes) ==
    Tabulate([i \in 1..Len(ma_fast) |->
        IF writes /\ i > fast_period /\ Greater(ma_fast[i], ma_slow[i])
        THEN R(1) ELSE R(0)], Len(ma_fast))

\* the frame of lines 156-167, before dropna
CrossoverFrame(close, fast_period, slow_period, writes) ==
    LET c        == Tabulate([i \in 1..Len(close) |-> R(close[i])], Len(close))
        ma_fast  == RollingMean(c, fast_period)
        ma_slow  == RollingMean(c, slow_period)
        signal   == CrossoverSignal(ma_fast, ma_slow, fast_period, writes)
        position == Diff(signal)
    IN  Tabulate([i \in 1..Len(close) |->
            [Date |-> i, Close |-> c[i], MA_Fast |-> ma_fast[i],
             MA_Slow |-> ma_slow[i], Signal |-> signal[i],
             Position |-> position[i]]], Len(close))

\* lines 171-179: dropna, then the equity columns
CrossoverResults(df, initial_capital) == EquityCurves(Dropna(df), initial_capital)

\* the DataFrame the function returns (when its last print does not raise)
moving_average_crossover_strategy(close, fast_period, slow_period, initial_capital, writes) ==
    CrossoverResults(CrossoverFrame(close, fast_period, slow_period, writes),
                     initial_capital)

\* ------------------------------------------------------------- RSI
Gain(data) ==
    LET delta == Diff(data)
    IN  Tabulate([i \in 1..Len(data) |-> IF Greater(delta[i], R(0)) THEN delta[i] ELSE R(0)], Len(data))

Loss(data) ==
    LET delta == Diff(data)
    IN  Tabulate([i \in 1..Len(data) |-> Neg(IF Less(delta[i], R(0)) THEN delta[i] ELSE R(0))], Len(data))

AvgGain(data, period) == Ewm(Gain(data), period)
AvgLoss(data, period) == Ewm(Loss(data), period)

\* rsi = 100 - (100 / (1 + avg_gain / avg_loss))
RsiValue(avg_gain, avg_loss) ==
    Sub(R(100), Div(R(100), Add(R(1), Div(avg_gain, avg_loss))))

calculate_rsi(data, period) ==
    LET avg_gain == AvgGain(data, period)
        avg_loss == AvgLoss(data, period)
    IN  Tabulate([i \in 1..Len(data) |-> RsiValue(avg_gain[i], avg_loss[i])], Len(data))

\* lines 254-260: 0, then 1 where RSI < oversold, then 0 where RSI > overbought
RawSignal(rsi, oversold, overbought) ==
    Tabulate([i \in 1..Len(rsi) |->
        IF Greater(rsi[i], R(overbought)) THEN R(0)
        ELSE IF Less(rsi[i], R(oversold)) THEN R(1)
        ELSE R(0)], Len(rsi))

\* line 263: replace(0, nan).ffill().fillna(0)
HoldSignal(raw) == Fillna0(Ffill(Replace0WithNaN(raw)))

\* the frame of lines 250-274, before dropna
RsiFrame(close, rsi_period, oversold, overbought, initial_capital) ==
    LET c        == Tabulate([i \in 1..Len(close) |-> R(close[i])], Len(close))
        rsi      == calculate_rsi(c, rsi_period)
        signal   == HoldSignal(RawSignal(rsi, oversold, overbought))
        position == Diff(signal)
    IN  EquityCurves(Tabulate([i \in 1..Len(close) |->
                        [Date |-> i, Close |-> c[i], RSI |-> rsi[i],
                         Signal |-> signal[i], Position |-> position[i]]], Len(close)),
                     initial_capital)

rsi_mean_reversion_strategy(close, rsi_period, oversold, overbought, initial_capital) ==
    Dropna(RsiFrame(close, rsi_period, oversold, overbought, initial_capital))

\* --------------------------------------------------- trade analyzer
BuySignals(results)  == SelectSeq(results, LAMBDA row : row.Position = R(1))
SellSignals(results) == SelectSeq(results, LAMBDA row : row.Position = R(-1))

\* sell_signals[sell_signals.index > entry_date]
FutureSellsUnfiltered(sell_signals, entry_date) == sell_signals
FutureSells(sell_signals, entry_date) ==
    SelectSeq(sell_signals, LAMBDA row : row.Date > entry_date)

\* range(min(len(buy_signals), len(sell_signals)))
PairingBoundAllEntries(buy_signals, sell_signals) == Len(buy_signals)
PairingBound(buy_signals, sell_signals) ==
    IF Len(buy_signals) < Len(sell_signals)
    THEN Len(buy_signals) ELSE Len(sell_signals)

PnlPct(entry_price, exit_price) ==
    Mul(Div(Sub(exit_price, entry_price), entry_price), R(100))

PnlDollar(entry_price, exit_price, initial_capital) ==
    Mul(Sub(exit_price, entry_price), Div(R(initial_capital), entry_price))

TradeResultTieWins(pnl_pct) == IF GreaterEq(pnl_pct, R(0)) THEN "WIN" ELSE "LOSS"
TradeResult(pnl_pct) == IF Greater(pnl_pct, R(0)) THEN "WIN" ELSE "LOSS"

\* the dict of lines 39-49; i is the 1-based loop index (Trade_Num = i + 1 in
\* the 0-based code)
Trade(i, entry, exit, initial_capital) ==
    [Trade_Num    |-> i,
     Entry_Date   |-> entry.Date,
     Entry_Price  |-> entry.Close,
     Exit_Date    |-> exit.Date,
     Exit_Price   |-> exit.Close,
     PnL_pct      |-> PnlPct(entry.Close, exit.Close),
     PnL_dollar   |-> PnlDollar(entry.Close, exit.Close, initial_capital),
     Holding_Days |-> exit.Date - entry.Date,
     Result       |-> TradeResult(PnlPct(entry.Close, exit.Close))]

\* the loop of lines 22-50, from iteration i on
RECURSIVE PairTrades(_, _, _, _)
PairTrades(buy_signals, sell_signals, i, initial_capital) ==
    IF i > PairingBound(buy_signals, sell_signals) THEN << >>
    ELSE LET future_sells == FutureSells(sell_signals, buy_signals[i].Date)
             rest == PairTrades(buy_signals, sell_signals, i + 1, initial_capital)
         IN  IF Len(future_sells) > 0
             THEN << Trade(i, buy_signals[i], future_sells[1], initial_capital) >>
                  \o rest
             ELSE rest

analyze_trades_detailed(results, initial_capital) ==
    PairTrades(BuySignals(results), SellSignals(results), 1, initial_capital)

\* the same loop, each trade carrying the RSI at its entry and exit
RECURSIVE PairRsiTrades(_, _, _, _)
PairRsiTrades(buy_signals, sell_signals, i, initial_capital) ==
    IF i > PairingBound(buy_signals, sell_signals) THEN << >>
    ELSE LET future_sells == FutureSells(sell_signals, buy_signals[i].Date)
             rest == PairRsiTrades(buy_signals, sell_signals, i + 1, initial_capital)
         IN  IF Len(future_sells) > 0
             THEN << Trade(i, buy_signals[i], future_sells[1], initial_capital)
                     @@ [Entry_RSI |-> buy_signals[i].RSI,
                         Exit_RSI  |-> future_sells[1].RSI] >>
                  \o rest
             ELSE rest

analyze_rsi_trades(results, initial_capital) ==
    PairRsiTrades(BuySignals(results), SellSignals(results), 1, initial_capital)

\* ------------------------------------------------ drawdown analyzer
Defined(s) == {i \in 1..Len(s) : NotNa(s[i])}

\* Series.idxmin() / idxmax(): the first position of the extreme, NaN skipped
IdxMinLast(s) ==
    CHOOSE i \in Defined(s) :
        \A j \in Defined(s) : ~Less(s[j], s[i]) /\ (s[j] = s[i] => i >= j)
IdxMin(s) ==
    CHOOSE i \in Defined(s) :
        \A j \in Defined(s) : ~Less(s[j], s[i]) /\ (s[j] = s[i] => i <= j)

IdxMax(s) ==
    CHOOSE i \in Defined(s) :
        \A j \in Defined(s) : ~Greater(s[j], s[i]) /\ (s[j] = s[i] => i <= j)

RunningMax(equity) == CumMax(equity)

DrawdownPct(equity) ==
    LET running_max == RunningMax(equity)
    IN  Tabulate([i \in 1..Len(equity) |->
            Mul(Div(Sub(equity[i], running_max[i]), running_max[i]), R(100))], Len(equity))

\* running_max[:max_dd_idx].idxmax(): the label slice includes max_dd_idx
PeakPosWholeCurve(equity, max_dd_pos) == IdxMax(RunningMax(equity))
PeakPos(equity, max_dd_pos) == IdxMax(SubSeq(RunningMax(equity), 1, max_dd_pos))

\* future_equity = equity[max_dd_idx:] (the label slice includes max_dd_idx),
\* then the first index of future_equity[future_equity >= peak_value]
RecoveryPos(equity, max_dd_pos, peak_value) ==
    LET reached == {i \in max_dd_pos..Len(equity) : GreaterEq(equity[i], peak_value)}
    IN  IF reached = {} THEN None
        ELSE CHOOSE i \in reached : \A j \in reached : i <= j

\* what analyze_drawdown computes and prints (lines 62-101)
analyze_drawdown(results) ==
    LET equity       == Column(results, "Strategy_Equity")
        running_max  == RunningMax(equity)
        drawdown_pct == DrawdownPct(equity)
        max_dd_pos   == IdxMin(drawdown_pct)
        peak_pos     == PeakPos(equity, max_dd_pos)
        peak_value   == running_max[peak_pos]
        recovery_pos == RecoveryPos(equity, max_dd_pos, peak_value)
        max_dd_idx   == results[max_dd_pos].Date
        peak_idx     == results[peak_pos].Date
        recovery_idx == IF recovery_pos = None THEN None
                        ELSE results[recovery_pos].Date
    IN  [running_max  |-> running_max,
         drawdown_pct |-> drawdown_pct,
         max_dd_value |-> drawdown_pct[max_dd_pos],
         max_dd_idx   |-> max_dd_idx,
         peak_idx     |-> peak_idx,
         peak_value   |-> peak_value,
         recovery_idx |-> recovery_idx,
         durations    |-> IF recovery_idx = None THEN << >>
                          ELSE << max_dd_idx - peak_idx,
                                  recovery_idx - max_dd_idx,
                                  recovery_idx - peak_idx >>]

\* ------------------------------------------------------------ state
VARIABLES
    close,      \* the Close column yf.download returned
    params,     \* the parameters of the strategy call
    frame,      \* the strategy's DataFrame before its dropna
    results,    \* the DataFrame the strategy returned
    trades,     \* trades_df
    stats,      \* what the statistics block of main() computed
    episode,    \* what analyze_drawdown computed
    error,      \* the exception that ended the run, "none" if none
    pc          \* start, strategy, trades, stats, done, failed

vars == << close, params, frame, results, trades, stats, episode, error, pc >>

PriceSeries == UNION {[1..n -> 1..MaxPrice] : n \in 1..MaxLen}
Periods     == 1..MaxPeriod
Thresholds  == {DefaultOversold, DefaultOverbought}

NoEpisode == [max_dd_idx |-> None]
NoStats   == [total |-> None]

\* both strategies end with print(... df.index[0].date() ...), which raises
\* IndexError on an empty frame, so nothing is returned then
Return(df) ==
    IF Len(df) = 0
    THEN results' = << >> /\ error' = "IndexError" /\ pc' = "failed"
    ELSE results' = df /\ error' = "none" /\ pc' = "strategy"

\* one call of the strategy named by p on the downloaded series c
RunStrategy(p, c) ==
    IF p.strategy = "ma"
    THEN LET df == CrossoverFrame(c, p.fast_period, p.slow_period, p.writes)
         IN  frame' = df /\ Return(CrossoverResults(df, DefaultCapital))
    ELSE LET df == RsiFrame(c, p.rsi_period, p.oversold, p.overbought,
                            DefaultCapital)
         IN  frame' = df /\ Return(Dropna(df))

Init ==
    /\ close \in PriceSeries
    /\ params = [strategy |-> "none"]
    /\ frame = << >>
    /\ results = << >>
    /\ trades = << >>
    /\ stats = NoStats
    /\ episode = NoEpisode
    /\ error = "none"
    /\ pc = "start"

MovingAverageCrossover ==
    /\ pc = "start"
    /\ \E fast_period \in Periods, slow_period \in Periods, writes \in BOOLEAN :
          /\ params' = [strategy |-> "ma", fast_period |-> fast_period,
                        slow_period |-> slow_period, writes |-> writes]
          /\ RunStrategy(params', close)
    /\ UNCHANGED << close, trades, stats, episode >>

RsiMeanReversion ==
    /\ pc = "start"
    /\ \E rsi_period \in Periods, oversold \in Thresholds, overbought \in Thresholds :
          /\ params' = [strategy |-> "rsi", rsi_period |-> rsi_period,
                        oversold |-> oversold, overbought |-> overbought]
          /\ RunStrategy(params', close)
    /\ UNCHANGED << close, trades, stats, episode >>

\* The same call made again once the market has one more bar (a later
\* end_date: main.py 26 takes it from datetime.now()): yf.download returns
\* the bars it returned before, followed by the new one.
ExtendHistory ==
    /\ pc = "strategy" \/ (pc = "failed" /\ error = "IndexError")
    /\ Len(close) < MaxLen
    /\ \E price \in 1..MaxPrice :
          /\ close' = Append(close, price)
          /\ RunStrategy(params, close')
    /\ UNCHANGED << params, trades, stats, episode >>

AnalyzeTradesDetailed ==
    /\ pc = "strategy"
    /\ params.strategy # "rsi"
    /\ trades' = analyze_trades_detailed(results, DefaultCapital)
    /\ pc' = "trades"
    /\ UNCHANGED << close, params, frame, results, stats, episode, error >>

AnalyzeRsiTrades ==
    /\ pc = "strategy"
    /\ params.strategy # "ma"
    /\ trades' = analyze_rsi_trades(results, DefaultCapital)
    /\ pc' = "trades"
    /\ UNCHANGED << close, params, frame, results, stats, episode, error >>

\* main.py 125-148, the statistics of trades_df.  DataFrame([]) has no
\* columns, so trades_df['Result'] (line 126) raises KeyError when no trade
\* was produced; the division of line 128 is by len(trades_df).
Wins(trades_df)   == SelectSeq(trades_df, LAMBDA t : t.Result = "WIN")
Losses(trades_df) == SelectSeq(trades_df, LAMBDA t : t.Result = "LOSS")

RECURSIVE HoldingDaysSum(_, _)
HoldingDaysSum(trades_df, n) ==
    IF n = 0 THEN 0 ELSE HoldingDaysSum(trades_df, n - 1) + trades_df[n].Holding_Days

Statistics(trades_df) ==
    [total        |-> Len(trades_df),
     wins         |-> Len(Wins(trades_df)),
     losses       |-> Len(Losses(trades_df)),
     win_rate     |-> Mul(Div(R(Len(Wins(trades_df))), R(Len(trades_df))), R(100)),
     holding_mean |-> Norm(HoldingDaysSum(trades_df, Len(trades_df)), Len(trades_df))]

TradeStatistics ==
    /\ pc = "trades"
    /\ params.strategy = "ma"
    /\ IF Len(trades) = 0
       THEN stats' = NoStats /\ error' = "KeyError" /\ pc' = "failed"
       ELSE stats' = Statistics(trades) /\ error' = "none" /\ pc' = "stats"
    /\ UNCHANGED << close, params, frame, results, trades, episode >>

\* idxmin() of an all-NaN drawdown series raises ValueError
AnalyzeDrawdown ==
    /\ pc = "stats"
    /\ IF Defined(Column(results, "Strategy_Equity")) = {}
       THEN episode' = NoEpisode /\ error' = "ValueError" /\ pc' = "failed"
       ELSE episode' = analyze_drawdown(results) /\ error' = "none" /\ pc' = "done"
    /\ UNCHANGED << close, params, frame, results, trades, stats >>

\* the two strategies, each called on every price series and called again
\* on every longer history
Next ==
    \/ MovingAverageCrossover
    \/ RsiMeanReversion
    \/ ExtendHistory

Spec == Init /\ [][Next]_vars

\* ------------------------------------- the trade analyzers on any events
\* A table of position events: one row per date, any Position in {-1, 0, +1}
\* (ENTRY and EXIT need not alternate), any Close on the rows that carry an
\* event (the analyzers read no other Close, which is 1 here), and an RSI
\* column so that analyze_rsi_trades applies too.
EventRow(date, price, position) ==
    [Date |-> date, Close |-> R(price), Position |-> R(position), RSI |-> R(50)]

EventKinds == {<< 1, 0 >>} \cup ((1..MaxPrice) \X {-1, 1})

EventTable(f, n) == Tabulate([i \in 1..n |-> EventRow(i, f[i][1], f[i][2])], n)

InitTrades ==
    /\ close = << >>
    /\ params = [strategy |-> "events"]
    /\ frame = << >>
    /\ \E n \in 1..MaxEvents : \E f \in [1..n -> EventKinds] :
          results = EventTable(f, n)
    /\ trades = << >>
    /\ stats = NoStats
    /\ episode = NoEpisode
    /\ error = "none"
    /\ pc = "strategy"

NextTrades ==
    \/ AnalyzeTradesDetailed
    \/ AnalyzeRsiTrades

SpecTrades == InitTrades /\ [][NextTrades]_vars

\* ------------------------------------ analyze_drawdown on any equity curve
\* A Strategy_Equity column: positive values, and NaN where the strategy
\* return is undefined (the first retained row of the crossover strategy).
EquityValues == {NaN} \cup {R(k) : k \in 1..MaxEquity}

EquityTable(f, n) == Tabulate([i \in 1..n |-> [Date |-> i, Strategy_Equity |-> f[i]]], n)

InitDrawdown ==
    /\ close = << >>
    /\ params = [strategy |-> "curve"]
    /\ frame = << >>
    /\ \E n \in 1..MaxCurve : \E f \in [1..n -> EquityValues] :
          results = EquityTable(f, n)
    /\ trades = << >>
    /\ stats = NoStats
    /\ episode = NoEpisode
    /\ error = "none"
    /\ pc = "stats"

NextDrawdown == AnalyzeDrawdown

SpecDrawdown == InitDrawdown /\ [][NextDrawdown]_vars

\* ------------------------------------------------- one run of main()
\* main.py 106-192: the crossover strategy, analyze_trades_detailed on what
\* it returned, the statistics of the trades, then analyze_drawdown.  An
\* exception in one step ends the run.
InitMain ==
    /\ \E n \in 1..MaxBars : close \in [1..n -> 1..MaxPrice]
    /\ params = [strategy |-> "none"]
    /\ frame = << >>
    /\ results = << >>
    /\ trades = << >>
    /\ stats = NoStats
    /\ episode = NoEpisode
    /\ error = "none"
    /\ pc = "start"

NextMain ==
    \/ MovingAverageCrossover
    \/ AnalyzeTradesDetailed
    \/ TradeStatistics
    \/ AnalyzeDrawdown

SpecMain == InitMain /\ [][NextMain]_vars

\* ------------------- the RSI strategy followed by analyze_rsi_trades
NextRsi ==
    \/ RsiMeanReversion
    \/ AnalyzeRsiTrades

SpecRsi == Init /\ [][NextRsi]_vars

\* ================================================================ claims
RowsAt(df, t) == {df[i] : i \in {j \in 1..Len(df) : df[j].Date = t}}
MinOf(S) == CHOOSE x \in S : \A y \in S : x <= y

\* ---- C1 (as stated; the code refutes it)
\* C1: the Signal of rsi_mean_reversion_strategy is a latch that starts at 0:
\* at every date it is 1 if RSI < oversold, 0 if RSI > overbought, and the
\* previous date's Signal otherwise.
LatchValue(rsi, previous, oversold, overbought) ==
    IF Less(rsi, R(oversold)) THEN R(1)
    ELSE IF Greater(rsi, R(overbought)) THEN R(0)
    ELSE previous

C1_SignalIsLatch ==
    (params.strategy = "rsi" /\ params.oversold < params.overbought) =>
        \A i \in 1..Len(frame) :
            frame[i].Signal =
                LatchValue(frame[i].RSI,
                           IF i = 1 THEN R(0) ELSE frame[i - 1].Signal,
                           params.oversold, params.overbought)

\* ---- C2
\* the Signal of the date before t (the frame holds every date; none before
\* the first)
SignalBefore(df, t) == IF t = 1 THEN NaN ELSE df[t - 1].Signal
StrategyReturnsAt(df, t) == {row.Strategy_Returns : row \in RowsAt(df, t)}

C2_LaggedReturn ==
    \A i \in 1..Len(results) :
        results[i].Strategy_Returns =
            Mul(SignalBefore(frame, results[i].Date), results[i].Returns)

C2_PastUnchanged ==
    close' # close =>
        \A t \in 1..Len(close) :
            /\ StrategyReturnsAt(results', t) = StrategyReturnsAt(results, t)
            /\ SignalBefore(frame', t) = SignalBefore(frame, t)

\* C2: for both strategies, Strategy_Returns(t) = Signal(t-1) * Returns(t) at
\* every date of the output, and a history that agrees with the present one
\* up to date t and goes on with any later prices gives the same
\* Strategy_Returns and the same Signal(t-1) at t and at every earlier date.
C2_Causality == []C2_LaggedReturn /\ [][C2_PastUnchanged]_vars

\* a position was held over a price change, and there are later prices
C2_Witness ==
    /\ pc = "strategy"
    /\ \E i \in 1..Len(results) :
          /\ results[i].Date < Len(close)
          /\ NotNa(results[i].Strategy_Returns)
          /\ results[i].Strategy_Returns # R(0)

\* ---- C3
\* the product of (1 + df[k][column]) over the rows k <= n dated t or
\* earlier whose value is defined
RECURSIVE Growth(_, _, _, _)
Growth(df, column, t, n) ==
    IF n = 0 THEN R(1)
    ELSE IF df[n].Date <= t /\ NotNa(df[n][column])
         THEN Mul(Growth(df, column, t, n - 1), Add(R(1), df[n][column]))
         ELSE Growth(df, column, t, n - 1)

\* the rows the returns are computed on: the retained rows in the crossover
\* strategy (dropna comes first), every date in the RSI strategy
ReturnRows == IF params.strategy = "rsi" THEN frame ELSE results

\* C3: wherever a strategy return is defined, Strategy_Equity(t) is
\* initial_capital times the product of (1 + Strategy_Returns(i)) over the
\* dates i <= t with a defined strategy return, the undefined ones left out;
\* likewise Buy_Hold_Equity with Returns.
C3_Compounding ==
    \A i \in 1..Len(results) :
        LET row == results[i]
        IN  /\ NotNa(row.Strategy_Returns) =>
                 row.Strategy_Equity =
                     Mul(R(DefaultCapital),
                         Growth(ReturnRows, "Strategy_Returns", row.Date,
                                Len(ReturnRows)))
            /\ NotNa(row.Returns) =>
                 row.Buy_Hold_Equity =
                     Mul(R(DefaultCapital),
                         Growth(ReturnRows, "Returns", row.Date, Len(ReturnRows)))

\* an undefined first return is followed by returns that moved the equity
C3_Witness ==
    /\ pc = "strategy"
    /\ Len(results) >= 3
    /\ IsNaN(results[1].Strategy_Returns)
    /\ \E i \in 2..Len(results) :
          /\ NotNa(results[i].Strategy_Equity)
          /\ results[i].Strategy_Equity # R(DefaultCapital)
          /\ results[i].Buy_Hold_Equity # results[i].Strategy_Equity

\* ---- C4
\* C4: every trade has Entry_Date < Exit_Date and no two trades have the same
\* Entry_Date, for any table of position events.
C4_TradePairing ==
    \A i \in 1..Len(trades) :
        /\ trades[i].Entry_Date < trades[i].Exit_Date
        /\ \A j \in 1..Len(trades) :
              i # j => trades[i].Entry_Date # trades[j].Entry_Date

\* two trades out of events that do not alternate (two entries, then exits)
C4_Witness ==
    /\ pc = "trades"
    /\ Len(trades) >= 2
    /\ trades[2].Entry_Date < trades[1].Exit_Date

\* ---- C5
EntryDates == {results[i].Date : i \in {j \in 1..Len(results) : results[j].Position = R(1)}}
ExitDates  == {results[i].Date : i \in {j \in 1..Len(results) : results[j].Position = R(-1)}}
LaterExits(d) == {x \in ExitDates : x > d}
TradesFrom(d) == {i \in 1..Len(trades) : trades[i].Entry_Date = d}

\* one trade from the entry at d to the earliest later exit, or none if no
\* exit is later
PairedWithNextExit(d) ==
    IF LaterExits(d) = {} THEN TradesFrom(d) = {}
    ELSE \E i \in 1..Len(trades) :
            /\ TradesFrom(d) = {i}
            /\ trades[i].Exit_Date = MinOf(LaterExits(d))

\* the entry at d is among the first min(#ENTRY, #EXIT) entries
Evaluated(d) ==
    LET rank == Cardinality({e \in EntryDates : e <= d})
    IN  rank <= Cardinality(EntryDates) /\ rank <= Cardinality(ExitDates)

\* C5 (as stated; refuted): every ENTRY with a later EXIT gives exactly one
\* trade, to the earliest later EXIT, and an ENTRY with no later EXIT none.
C5_EveryEntryPaired ==
    pc = "trades" => \A d \in EntryDates : PairedWithNextExit(d)

\* C5 (amended): that holds of the first min(#ENTRY, #EXIT) ENTRY events;
\* a later ENTRY gives no trade, whether or not an EXIT follows it; and
\* every trade starts at an ENTRY.
C5_EvaluatedEntriesPaired ==
    pc = "trades" =>
        /\ \A d \in EntryDates :
              IF Evaluated(d) THEN PairedWithNextExit(d) ELSE TradesFrom(d) = {}
        /\ \A i \in 1..Len(trades) : trades[i].Entry_Date \in EntryDates

\* an entry beyond the bound with an exit after it, next to a paired entry
C5_Witness ==
    /\ pc = "trades"
    /\ Len(trades) >= 1
    /\ \E d \in EntryDates : ~Evaluated(d) /\ LaterExits(d) # {}

\* ---- C6
CloseAt(df, t) == {row.Close : row \in RowsAt(df, t)}

\* C6: every trade has PnL_% = (Exit_Price - Entry_Price) / Entry_Price * 100,
\* PnL_$ = PnL_% / 100 * initial_capital, and Result = WIN exactly when
\* PnL_% > 0 (LOSS otherwise, so also when Exit_Price = Entry_Price); its
\* prices are the closes of its dates.
C6_TradeRecord ==
    \A i \in 1..Len(trades) :
        LET t == trades[i]
        IN  /\ CloseAt(results, t.Entry_Date) = {t.Entry_Price}
            /\ CloseAt(results, t.Exit_Date) = {t.Exit_Price}
            /\ t.PnL_pct =
                  Mul(Div(Sub(t.Exit_Price, t.Entry_Price), t.Entry_Price), R(100))
            /\ t.PnL_dollar = Mul(Div(t.PnL_pct, R(100)), R(DefaultCapital))
            /\ t.Result \in {"WIN", "LOSS"}
            /\ t.Result = "WIN" <=> Greater(t.PnL_pct, R(0))
            /\ t.Exit_Price = t.Entry_Price => t.Result = "LOSS"

\* a trade that exits at its entry price, next to a winning one
C6_Witness ==
    /\ pc = "trades"
    /\ \E i \in 1..Len(trades) :
          trades[i].Exit_Price = trades[i].Entry_Price /\ trades[i].Result = "LOSS"
    /\ \E i \in 1..Len(trades) : trades[i].Result = "WIN"

\* ---- C7
Equity == Column(results, "Strategy_Equity")

\* C7: the running maximum is the maximum so far and never decreases,
\* drawdown_pct <= 0 at every date, the reported maximum drawdown is the
\* minimum of drawdown_pct, and the trough is the earliest date attaining it.
C7_Drawdown ==
    (pc = "done" /\ Defined(Equity) = 1..Len(results)) =>
        LET rm == episode.running_max
            dd == episode.drawdown_pct
            n  == Len(results)
        IN  /\ Len(rm) = n /\ Len(dd) = n
            /\ \A i \in 1..n :
                  /\ \E j \in 1..i : rm[i] = Equity[j]
                  /\ \A j \in 1..i : GreaterEq(rm[i], Equity[j])
                  /\ i > 1 => GreaterEq(rm[i], rm[i - 1])
                  /\ GreaterEq(R(0), dd[i])
                  /\ GreaterEq(dd[i], episode.max_dd_value)
            /\ \E i \in 1..n :
                  /\ results[i].Date = episode.max_dd_idx
                  /\ dd[i] = episode.max_dd_value
                  /\ \A j \in 1..(i - 1) : dd[j] # episode.max_dd_value

\* a real drawdown whose depth is reached on two dates
C7_Witness ==
    /\ pc = "done"
    /\ Defined(Equity) = 1..Len(results)
    /\ Less(episode.max_dd_value, R(0))
    /\ \E i, j \in 1..Len(results) :
          /\ i < j
          /\ episode.drawdown_pct[i] = episode.max_dd_value
          /\ episode.drawdown_pct[j] = episode.max_dd_value

\* ---- C8 (as stated; the code refutes it)
PosOf(date) == CHOOSE i \in 1..Len(results) : results[i].Date = date

\* C8: the recovery date is the first date strictly after the trough with
\* equity >= the equity at the peak; with no such date, recovery is absent
\* and no durations are reported.
C8_RecoveryAfterTrough ==
    pc = "done" =>
        LET peak_equity == Equity[PosOf(episode.peak_idx)]
            after == {i \in (PosOf(episode.max_dd_idx) + 1)..Len(results) :
                         GreaterEq(Equity[i], peak_equity)}
        IN  IF after = {}
            THEN episode.recovery_idx = None /\ episode.durations = << >>
            ELSE episode.recovery_idx = results[MinOf(after)].Date

\* ---- C9
\* C9: peak_date <= trough_date; with a recovery date, trough_date <=
\* recovery_date, equity(recovery_date) >= equity(peak_date), and drawdown
\* duration + recovery duration = the span from peak to recovery.
C9_EpisodeOrder ==
    pc = "done" =>
        /\ episode.peak_idx <= episode.max_dd_idx
        /\ episode.recovery_idx # None =>
              /\ episode.max_dd_idx <= episode.recovery_idx
              /\ GreaterEq(Equity[PosOf(episode.recovery_idx)],
                           Equity[PosOf(episode.peak_idx)])
              /\ Len(episode.durations) = 3
              /\ episode.durations[1] = episode.max_dd_idx - episode.peak_idx
              /\ episode.durations[2] = episode.recovery_idx - episode.max_dd_idx
              /\ episode.durations[1] + episode.durations[2] =
                    episode.recovery_idx - episode.peak_idx
              /\ episode.durations[3] = episode.recovery_idx - episode.peak_idx

\* a rise, a fall and a recovery on three different dates
C9_Witness ==
    /\ pc = "done"
    /\ episode.recovery_idx # None
    /\ episode.peak_idx < episode.max_dd_idx
    /\ episode.max_dd_idx < episode.recovery_idx

\* ---- C10 (as stated; the code refutes it)
\* C10: at every date where the smoothed average loss is 0, calculate_rsi
\* reports 100 (no undefined value).
C10_RsiIs100AtZeroLoss ==
    params.strategy = "rsi" =>
        LET avg_loss == AvgLoss(Column(frame, "Close"), params.rsi_period)
        IN  \A i \in 1..Len(frame) :
                avg_loss[i] = R(0) => frame[i].RSI = R(100)

\* ---- C11 (as stated; the code refutes it)
InvalidParameters ==
    \/ params.strategy = "ma" /\ params.fast_period >= params.slow_period
    \/ params.strategy = "rsi" /\ params.oversold >= params.overbought

\* C11: a strategy called with fast_period >= slow_period, or with
\* oversold >= overbought, fails with InvalidParameter and has computed no
\* signal, event or equity output.
C11_InvalidParametersRejected ==
    InvalidParameters =>
        /\ error = "InvalidParameter"
        /\ frame = << >>
        /\ results = << >>

\* ---- C12 (as stated; the code refutes it)
\* analyze_trades_detailed returned without an exception
TradesReturned == AnalyzeTradesDetailed => (error' = "none" /\ pc' = "trades")

\* the statistics block, run on an empty trades_df, completed
EmptyTradesProcessed ==
    (TradeStatistics /\ Len(trades) = 0) => (error' = "none" /\ pc' = "stats")

\* C12: when no ENTRY/EXIT pair can be formed, analyze_trades_detailed
\* returns an empty collection without failing, and main() completes its
\* statistics block on that empty collection without raising an error.
C12_EmptyTradesAreValid == [][TradesReturned /\ EmptyTradesProcessed]_vars

\* ---- C13 (as stated; the code refutes it)
\* the dates on which a moving average is not yet defined
WarmUpDates ==
    {frame[j].Date : j \in {k \in 1..Len(frame) :
                               IsNaN(frame[k].MA_Fast) \/ IsNaN(frame[k].MA_Slow)}}

\* C13: the output of moving_average_crossover_strategy holds no row of a
\* date before both moving averages are defined, and its first row carries
\* no position event (Position = 0, never +1 or -1).
C13_NoEventOnFirstRow ==
    (params.strategy = "ma" /\ pc = "strategy") =>
        /\ \A t \in WarmUpDates : RowsAt(results, t) = {}
        /\ results[1].Position = R(0)

\* ---- C14 (as stated; the code refutes it)
MaxOf(S) == CHOOSE x \in S : \A y \in S : x >= y

\* the positions at or before the trough whose equity is the maximum equity
\* over the positions at or before the trough
HighsBeforeTrough ==
    LET upto == {i \in Defined(Equity) : i <= PosOf(episode.max_dd_idx)}
    IN  {i \in upto : \A j \in upto : GreaterEq(Equity[i], Equity[j])}

\* C14: the peak date is the latest date at or before the trough at which
\* equity equals the maximum equity over all dates up to the trough.
C14_PeakIsLatestHigh ==
    pc = "done" => episode.peak_idx = results[MaxOf(HighsBeforeTrough)].Date

\* ---- C15
\* the rows of the output that carry a position event, in date order
Events == SelectSeq(results, LAMBDA row : row.Position # R(0))

\* analyze_trades_detailed has run on the output
TradesComputed == pc \notin {"start", "strategy"} /\ error # "IndexError"

\* C15: in the output of moving_average_crossover_strategy the position
\* events alternate ENTRY, EXIT, ENTRY, ... beginning with an ENTRY, so
\* #ENTRY - #EXIT is 0 or 1; analyze_trades_detailed on it yields exactly
\* #EXIT trades, the i-th pairing the i-th ENTRY with the i-th EXIT, no two
\* with the same Exit_Date, and each ending before the next begins.
C15_AlternatingEvents ==
    params.strategy = "ma" =>
        LET entries == BuySignals(results)
            exits   == SellSignals(results)
        IN  /\ \A k \in 1..Len(Events) :
                  Events[k].Position = IF k % 2 = 1 THEN R(1) ELSE R(-1)
            /\ Len(entries) - Len(exits) \in {0, 1}
            /\ TradesComputed =>
                  /\ Len(trades) = Len(exits)
                  /\ \A i \in 1..Len(trades) :
                        /\ trades[i].Entry_Date = entries[i].Date
                        /\ trades[i].Exit_Date = exits[i].Date
                        /\ \A j \in 1..Len(trades) :
                              i # j => trades[i].Exit_Date # trades[j].Exit_Date
                        /\ i < Len(trades) =>
                              trades[i].Exit_Date < trades[i + 1].Entry_Date

\* two round trips in one output
C15_Witness ==
    /\ params.strategy = "ma"
    /\ pc = "trades"
    /\ Len(trades) >= 2
    /\ Len(Events) >= 4

====
